---- MODULE Spec2Model ----
(***************************************************************************)
(* Model of package errors (tweithoener/errors): classification of an      *)
(* attribute list into an Error / Template record (function e and its      *)
(* callers E, T, Template.T, Template.E), Error.Unwrap, and the rendering  *)
(* loop of Error.Error.                                                    *)
(*                                                                         *)
(* A text is a sequence of one-character strings, so that concatenation    *)
(* and strings.Trim work on characters as they do in Go.                   *)
(***************************************************************************)
EXTENDS Integers, Sequences, FiniteSets, TLC

\* How many attributes a session of constructor calls passes in total.
MaxAttrs == 3
\* The same for a session that builds a cause chain and renders it.
MaxChainAttrs == 4

-----------------------------------------------------------------------------
(* Values *)

\* The nil interface value (a nil argument, an absent cause).
NilValue == [t |-> "nil"]

\* Error{} : the zero value of the struct.
ZeroError ==
    [t |-> "Error", Module |-> <<>>, Function |-> <<>>, Kind |-> <<>>,
     Operation |-> <<>>, Object |-> <<>>, Code |-> <<>>, Details |-> <<>>,
     Err |-> NilValue]

\* type Template Error : the conversions Template(x) and Error(x) keep every
\* field and change the type.
ToTemplate(x) == [x EXCEPT !.t = "Template"]
ToError(x) == [x EXCEPT !.t = "Error"]

\* Typed attributes: a named string type holding a text.
Mod(x) == [t |-> "Mod", v |-> x]
Func(x) == [t |-> "Func", v |-> x]
Kind(x) == [t |-> "Kind", v |-> x]
Op(x) == [t |-> "Op", v |-> x]
Obj(x) == [t |-> "Obj", v |-> x]
Code(x) == [t |-> "Code", v |-> x]
\* Untyped values: a plain string and an int.
StringValue(x) == [t |-> "string", v |-> x]
IntValue(n) == [t |-> "int", n |-> n]
\* An error of another package: its message and what it wraps itself.
ForeignError(msg, wrapped) == [t |-> "foreign", msg |-> msg, wrapped |-> wrapped]

-----------------------------------------------------------------------------
(* strings.Trim *)

RECURSIVE TrimLeft(_, _)
TrimLeft(s, cutset) ==
    IF s = <<>> \/ Head(s) \notin cutset THEN s ELSE TrimLeft(Tail(s), cutset)

RECURSIVE TrimRight(_, _)
TrimRight(s, cutset) ==
    IF s = <<>> \/ s[Len(s)] \notin cutset
    THEN s
    ELSE TrimRight(SubSeq(s, 1, Len(s) - 1), cutset)

\* strings.Trim(s, cutset): s without the leading and trailing characters of cutset.
Trim(s, cutset) == TrimRight(TrimLeft(s, cutset), cutset)

-----------------------------------------------------------------------------
(* fmt.Sprintf("%v", x) for an int: sign and decimal digits *)

Digit(d) == <<"0", "1", "2", "3", "4", "5", "6", "7", "8", "9">>[d + 1]

RECURSIVE Digits(_)
Digits(n) == IF n < 10 THEN <<Digit(n)>> ELSE Digits(n \div 10) \o <<Digit(n % 10)>>

Sprintv(x) == IF x.n < 0 THEN <<"-">> \o Digits(0 - x.n) ELSE Digits(x.n)

-----------------------------------------------------------------------------
(* func e(err Error, args ...interface{}) Error *)

\* A first-wins variant of the Mod case.
CaseModKeepFirst(err, x) == IF err.Module # <<>> THEN err ELSE [err EXCEPT !.Module = x.v]
CaseMod(err, x) == [err EXCEPT !.Module = x.v]
CaseFunc(err, x) == [err EXCEPT !.Function = x.v]
CaseKind(err, x) == [err EXCEPT !.Kind = x.v]
CaseOp(err, x) == [err EXCEPT !.Operation = x.v]
CaseObj(err, x) == [err EXCEPT !.Object = x.v]
CaseCode(err, x) == [err EXCEPT !.Code = x.v]
CaseString(err, x) == [err EXCEPT !.Details = err.Details \o <<";", " ">> \o x.v]
CaseError(err, x) == [err EXCEPT !.Err = x]
CaseDefault(err, x) == [err EXCEPT !.Details = err.Details \o Sprintv(x) \o <<";", " ">>]
\* A variant without the nil test: nil falls to the default case, "%v" prints <nil>.
CaseNilAsDetail(err, x) ==
    [err EXCEPT !.Details = err.Details \o <<"<", "n", "i", "l", ">", ";", " ">>]
\* if arg == nil { continue }
CaseNil(err, x) == err

\* One iteration of the range loop: the nil test, then the type switch.
Classify(err, arg) ==
    CASE arg.t = "nil" -> CaseNil(err, arg)
      [] arg.t = "Mod" -> CaseMod(err, arg)
      [] arg.t = "Func" -> CaseFunc(err, arg)
      [] arg.t = "Kind" -> CaseKind(err, arg)
      [] arg.t = "Op" -> CaseOp(err, arg)
      [] arg.t = "Obj" -> CaseObj(err, arg)
      [] arg.t = "Code" -> CaseCode(err, arg)
      [] arg.t = "string" -> CaseString(err, arg)
      [] arg.t \in {"Error", "foreign"} -> CaseError(err, arg)
      [] OTHER -> CaseDefault(err, arg)

RECURSIVE RangeArgs(_, _)
RangeArgs(err, args) ==
    IF args = <<>> THEN err ELSE RangeArgs(Classify(err, Head(args)), Tail(args))

TrimDetails(err) == [err EXCEPT !.Details = Trim(err.Details, {";", " "})]

e(err, args) == TrimDetails(RangeArgs(err, args))

\* func E(args ...interface{}) Error
E(args) == e(ZeroError, args)

\* func T(args ...interface{}) Template
T(args) == ToTemplate(e(ZeroError, args))

\* func (tpl Template) T(args ...interface{}) Template
TemplateT(tpl, args) == ToTemplate(e(ToError(tpl), args))

\* A variant that starts from Error{} instead of the receiver.
TemplateEFromZero(tpl, args) == e(ZeroError, args)
\* func (tpl Template) E(args ...interface{}) Error
TemplateE(tpl, args) == e(ToError(tpl), args)

\* A variant that skips one level of the chain.
UnwrapTwice(err) == IF err.Err.t = "Error" THEN err.Err.Err ELSE err.Err
\* func (err Error) Unwrap() error
Unwrap(err) == err.Err

\* A pointer-receiver variant that classifies into the receiver itself.
PointerReceiver(tpl, result) == ToTemplate(result)
\* A method with a value receiver works on a copy: what the caller's template
\* variable holds after the call tpl.T(...) or tpl.E(...) returned result.
ValueReceiver(tpl, result) == tpl

-----------------------------------------------------------------------------
(* func (err Error) Error() (ret string) : the pieces of one loop iteration *)

\* A variant that never starts a new line.
BlockPrefixNoNewline(ret) == ret \o <<" ", "-", " ">>
\* if ret != "" { ret = ret + "\n" } ; ret = ret + " - "
BlockPrefix(ret) == (IF ret # <<>> THEN ret \o <<"\n">> ELSE ret) \o <<" ", "-", " ">>

\* s := Module, "/" Function, " [" Object "]", then "\n   "
HeaderSegment(err2) ==
    err2.Module
        \o (IF err2.Function # <<>> THEN <<"/">> \o err2.Function ELSE <<>>)
        \o (IF err2.Object # <<>> THEN <<" ", "[">> \o err2.Object \o <<"]">> ELSE <<>>)
        \o <<"\n", " ", " ", " ">>

OperationSegment(err2) ==
    IF err2.Operation # <<>> THEN err2.Operation \o <<":", " ">> ELSE <<>>

\* A variant that tests the Code of the record of this iteration.
KindSegmentOwnCode(err, err2) ==
    IF err.Kind # <<>>
    THEN err2.Kind \o (IF err2.Code = <<>> THEN <<":">> ELSE <<>>) \o <<" ">>
    ELSE <<>>
\* err is the receiver (the outermost record), err2 the record of this iteration.
KindSegment(err, err2) ==
    IF err.Kind # <<>>
    THEN err2.Kind \o (IF err.Code = <<>> THEN <<":">> ELSE <<>>) \o <<" ">>
    ELSE <<>>

CodeSegment(err2) ==
    IF err2.Code # <<>> THEN <<"(">> \o err2.Code \o <<")", ":", " ">> ELSE <<>>

DetailsSegment(err2) == IF err2.Details # <<>> THEN err2.Details ELSE <<>>

\* The text s of one record before it is trimmed.
BlockText(err, err2) ==
    HeaderSegment(err2) \o OperationSegment(err2) \o KindSegment(err, err2)
        \o CodeSegment(err2) \o DetailsSegment(err2)

\* s = strings.Trim(s, " /\n:;")
TrimBlock(s) == Trim(s, {" ", "/", "\n", ":", ";"})

\* the deferred ret = strings.Trim(ret, "\n- ;/")
TrimResult(ret) == Trim(ret, {"\n", "-", " ", ";", "/"})

\* e.Error() of an error that is not an Error: its message.
ForeignMessage(x) == x.msg

-----------------------------------------------------------------------------
(* State *)

VARIABLES
    tpl,      \* the caller's template variable
    call,     \* the last constructor call: function, starting record, arguments,
              \* result, and whether the result was assigned to tpl
    sibling,  \* the call before the last derived from the same tpl, with other arguments
    errs,     \* the chain the last result ends, each record made by E with the
              \* one before it as its cause
    u,        \* the result of the last Unwrap
    hops,     \* how many successive Unwrap calls led from the last result to u
    left,     \* how many attributes the session may still pass
    pc,       \* position in Error(): "idle", "loop", "return", "done"
    cur,      \* Error(): the variable e
    ret,      \* Error(): the named result before the deferred trim
    out,      \* Error(): what the caller receives
    s,        \* Error(): the text s of the last iteration, untrimmed
    node,     \* Error(): the record err2 of the last iteration
    visited,  \* Error(): the values e has held, in order
    blocks    \* Error(): the block appended for each of them

vars ==
    <<tpl, call, sibling, errs, u, hops, left, pc, cur, ret, out, s, node, visited,
      blocks>>

buildVars == <<tpl, call, sibling, errs, u, hops, left>>
renderVars == <<pc, cur, ret, out, s, node, visited, blocks>>

\* The attribute values callers pass.
Attrs ==
    {NilValue, Mod(<<"m">>), Mod(<<>>), Func(<<"f">>), Kind(<<"k">>), Op(<<"o">>),
     Obj(<<"b">>), Code(<<"c">>), StringValue(<<"d">>), IntValue(-1),
     ForeignError(<<"x">>, E(<<StringValue(<<"w">>)>>))}

\* The Error the last call returned, if it returned one.
LastError == IF call.fn \in {"E", "Template.E"} THEN call.ret ELSE NilValue

\* ... and the error just returned, to wrap it.
AttrsNow == Attrs \cup (IF LastError.t = "Error" THEN {LastError} ELSE {})

ArgLists(n, A) == UNION {[1..k -> A] : k \in 0..n}

IsCause(x) == x.t \in {"Error", "foreign"}
CauseIndexes(args) == {i \in 1..Len(args) : IsCause(args[i])}

NoCall ==
    [fn |-> "none", base |-> ZeroError, args |-> <<>>, ret |-> NilValue, assigned |-> FALSE]

\* A call that derives from tpl and leaves the caller's tpl variable alone.
IsDerivation(c) == c.fn \in {"Template.T", "Template.E"} /\ ~c.assigned

Start ==
    /\ tpl = ToTemplate(ZeroError)
    /\ call = NoCall
    /\ sibling = FALSE
    /\ errs = <<>>
    /\ u = NilValue
    /\ hops = 0
    /\ pc = "idle"
    /\ cur = NilValue
    /\ ret = <<>>
    /\ out = <<>>
    /\ s = <<>>
    /\ node = NilValue
    /\ visited = <<>>
    /\ blocks = <<>>

\* The chain of the Unwrap test: errs[i] = errors.E(..., errs[i-1]).
ChainAfter(args, r) ==
    IF CauseIndexes(args) = {}
    THEN <<r>>
    ELSE IF /\ Cardinality(CauseIndexes(args)) = 1
            /\ errs # <<>>
            /\ \A i \in CauseIndexes(args) : args[i] = errs[Len(errs)]
         THEN Append(errs, r)
         ELSE <<>>

\* x := errors.E(args...)
CallE ==
    /\ pc = "idle"
    /\ \E args \in ArgLists(left, AttrsNow) :
        LET r == E(args) IN
        /\ call' = [fn |-> "E", base |-> ZeroError, args |-> args, ret |-> r,
                    assigned |-> FALSE]
        /\ errs' = ChainAfter(args, r)
        /\ left' = left - Len(args)
    /\ sibling' = FALSE
    /\ u' = NilValue
    /\ hops' = 0
    /\ UNCHANGED tpl
    /\ UNCHANGED renderVars

\* tpl = errors.T(args...)
CallT ==
    /\ pc = "idle"
    /\ \E args \in ArgLists(left, AttrsNow) :
        LET r == T(args) IN
        /\ tpl' = r
        /\ call' = [fn |-> "T", base |-> ZeroError, args |-> args, ret |-> r,
                    assigned |-> TRUE]
        /\ left' = left - Len(args)
    /\ sibling' = FALSE
    /\ errs' = <<>>
    /\ u' = NilValue
    /\ hops' = 0
    /\ UNCHANGED renderVars

\* child := tpl.T(args...), or tpl = tpl.T(args...)
CallTemplateT ==
    /\ pc = "idle"
    /\ \E args \in ArgLists(left, AttrsNow), rebind \in BOOLEAN :
        LET r == TemplateT(tpl, args) IN
        /\ call' = [fn |-> "Template.T", base |-> tpl, args |-> args, ret |-> r,
                    assigned |-> rebind]
        /\ left' = left - Len(args)
        /\ tpl' = IF rebind THEN r ELSE ValueReceiver(tpl, r)
        /\ sibling' = (~rebind /\ IsDerivation(call) /\ call.args # args)
    /\ errs' = <<>>
    /\ u' = NilValue
    /\ hops' = 0
    /\ UNCHANGED renderVars

\* x := tpl.E(args...)
CallTemplateE ==
    /\ pc = "idle"
    /\ \E args \in ArgLists(left, AttrsNow) :
        LET r == TemplateE(tpl, args) IN
        /\ call' = [fn |-> "Template.E", base |-> tpl, args |-> args, ret |-> r,
                    assigned |-> FALSE]
        /\ left' = left - Len(args)
        /\ tpl' = ValueReceiver(tpl, r)
        /\ sibling' = (IsDerivation(call) /\ call.args # args)
    /\ errs' = <<>>
    /\ u' = NilValue
    /\ hops' = 0
    /\ UNCHANGED renderVars

\* u := x.Unwrap(), or u = u.(Error).Unwrap()
CallUnwrap ==
    /\ pc = "idle"
    /\ \/ hops = 0 /\ LastError.t = "Error" /\ u' = Unwrap(LastError)
       \/ hops > 0 /\ u.t = "Error" /\ u' = Unwrap(u)
    /\ hops' = hops + 1
    /\ UNCHANGED <<tpl, call, sibling, errs, left>>
    /\ UNCHANGED renderVars

\* x.Error() is called: var e error = err
ErrorBegin ==
    /\ pc = "idle"
    /\ LastError.t = "Error"
    /\ pc' = "loop"
    /\ cur' = LastError
    /\ UNCHANGED <<ret, out, s, node, visited, blocks>>
    /\ UNCHANGED buildVars

\* One iteration with e an Error.
ErrorBlock ==
    /\ pc = "loop"
    /\ cur.t = "Error"
    /\ s' = BlockText(LastError, cur)
    /\ node' = cur
    /\ ret' = BlockPrefix(ret) \o TrimBlock(s')
    /\ blocks' = Append(blocks, TrimBlock(s'))
    /\ visited' = Append(visited, cur)
    /\ cur' = cur.Err
    /\ UNCHANGED <<pc, out>>
    /\ UNCHANGED buildVars

\* One iteration with e not an Error: its message, then return.
ErrorForeign ==
    /\ pc = "loop"
    /\ cur.t = "foreign"
    /\ ret' = BlockPrefix(ret) \o ForeignMessage(cur)
    /\ blocks' = Append(blocks, ForeignMessage(cur))
    /\ visited' = Append(visited, cur)
    /\ pc' = "return"
    /\ UNCHANGED <<cur, out, s, node>>
    /\ UNCHANGED buildVars

\* e == nil ends the loop.
ErrorLoopEnd ==
    /\ pc = "loop"
    /\ cur.t = "nil"
    /\ pc' = "return"
    /\ UNCHANGED <<cur, ret, out, s, node, visited, blocks>>
    /\ UNCHANGED buildVars

\* The deferred function trims the result.
ErrorReturn ==
    /\ pc = "return"
    /\ out' = TrimResult(ret)
    /\ pc' = "done"
    /\ UNCHANGED <<cur, ret, s, node, visited, blocks>>
    /\ UNCHANGED buildVars

\* Sessions of constructor calls.
Init == Start /\ left = MaxAttrs

Next ==
    \/ CallE
    \/ CallT
    \/ CallTemplateT
    \/ CallTemplateE

Spec == Init /\ [][Next]_vars

\* Sessions that build a chain with E and unwrap it.
NextUnwrap ==
    \/ CallE
    \/ CallUnwrap

SpecUnwrap == Init /\ [][NextUnwrap]_vars

\* Sessions that build a chain with E and render it.
InitChain == Start /\ left = MaxChainAttrs

NextChain ==
    \/ CallE
    \/ ErrorBegin
    \/ ErrorBlock
    \/ ErrorForeign
    \/ ErrorLoopEnd
    \/ ErrorReturn

SpecChain == InitChain /\ [][NextChain]_vars

-----------------------------------------------------------------------------
(* Properties of classification and of templates, checked under Spec *)

Max(S) == CHOOSE x \in S : \A y \in S : y <= x

\* The index of the last attribute of one of the types tys in args, 0 if there is none.
LastIndex(args, tys) ==
    LET I == {i \in 1..Len(args) : args[i].t \in tys} IN IF I = {} THEN 0 ELSE Max(I)

\* What the override law gives a singular field: the text of the last attribute of
\* type ty, or the inherited text.
LastText(args, ty, inherited) ==
    IF LastIndex(args, {ty}) = 0 THEN inherited ELSE args[LastIndex(args, {ty})].v

LastCause(args, inherited) ==
    IF LastIndex(args, {"Error", "foreign"}) = 0
    THEN inherited
    ELSE args[LastIndex(args, {"Error", "foreign"})]

Called == call.fn # "none"

\* C1: after E, T, Template.E or Template.T, each of Module, Function, Kind,
\* Operation, Object, Code and the cause of the result is the last non-nil attribute
\* of its category in the argument list, and the starting record's value if the
\* list has none.
C1_OverrideLaw ==
    Called =>
        /\ call.ret.Module = LastText(call.args, "Mod", call.base.Module)
        /\ call.ret.Function = LastText(call.args, "Func", call.base.Function)
        /\ call.ret.Kind = LastText(call.args, "Kind", call.base.Kind)
        /\ call.ret.Operation = LastText(call.args, "Op", call.base.Operation)
        /\ call.ret.Object = LastText(call.args, "Obj", call.base.Object)
        /\ call.ret.Code = LastText(call.args, "Code", call.base.Code)
        /\ call.ret.Err = LastCause(call.args, call.base.Err)

\* A derivation whose list holds two different Mod values over an inherited Module,
\* while the other fields are inherited.
C1_Witness ==
    /\ call.fn = "Template.E"
    /\ call.base.Module # <<>>
    /\ \E i, j \in 1..Len(call.args) :
        /\ i < j
        /\ call.args[i].t = "Mod"
        /\ call.args[j].t = "Mod"
        /\ call.args[i].v # call.args[j].v
        /\ call.ret.Module = call.args[j].v
        /\ call.ret.Module # call.base.Module
    /\ call.ret.Function = call.base.Function

IsDetail(x) == x.t \in {"string", "int"}
DetailText(x) == IF x.t = "string" THEN x.v ELSE Sprintv(x)

RECURSIVE DetailFragments(_)
DetailFragments(args) ==
    IF args = <<>>
    THEN <<>>
    ELSE (IF IsDetail(Head(args)) THEN <<DetailText(Head(args))>> ELSE <<>>)
             \o DetailFragments(Tail(args))

RECURSIVE Join(_, _)
Join(frags, sep) ==
    IF frags = <<>>
    THEN <<>>
    ELSE IF Len(frags) = 1
         THEN frags[1]
         ELSE frags[1] \o sep \o Join(Tail(frags), sep)

\* C2: the Details of the result is the inherited Details (if not empty) and the text
\* of every detail value of the list, in order, joined with "; " and stripped of
\* leading and trailing ';' and ' '.
C2_DetailsJoined ==
    Called =>
        call.ret.Details =
            Trim(Join((IF call.base.Details # <<>> THEN <<call.base.Details>> ELSE <<>>)
                          \o DetailFragments(call.args), <<";", " ">>),
                 {";", " "})

RECURSIVE WithoutNil(_)
WithoutNil(args) ==
    IF args = <<>>
    THEN <<>>
    ELSE (IF Head(args).t = "nil" THEN <<>> ELSE <<Head(args)>>) \o WithoutNil(Tail(args))

\* C3: the result of a call is, field for field, the result of the same call on the
\* list with its nil values removed.
C3_NilSkipping ==
    Called => ToError(call.ret) = e(ToError(call.base), WithoutNil(call.args))

\* A list with a nil between two other values, one of them a detail, on top of
\* inherited details.
C3_Witness ==
    /\ Called
    /\ Len(call.args) = 3
    /\ call.args[1].t # "nil"
    /\ call.args[2].t = "nil"
    /\ IsDetail(call.args[3])
    /\ call.ret.Details # <<>>

Fields == {"Module", "Function", "Kind", "Operation", "Object", "Code", "Details", "Err"}
IsSet(x, f) == IF f = "Err" THEN x.Err.t # "nil" ELSE x[f] # <<>>

\* C4 as claimed: every field set in the template is still set in what Template.E
\* or Template.T returns.
C4_NeverUnsets ==
    call.fn \in {"Template.T", "Template.E"} =>
        \A f \in Fields : IsSet(call.base, f) => IsSet(call.ret, f)

TypeOfField(f) ==
    CASE f = "Module" -> "Mod"
      [] f = "Function" -> "Func"
      [] f = "Kind" -> "Kind"
      [] f = "Operation" -> "Op"
      [] f = "Object" -> "Obj"
      [] f = "Code" -> "Code"
      [] OTHER -> "none"

\* C4 as amended: a field set in the template is still set in what Template.E or
\* Template.T returns, unless the last attribute of that field's category in the
\* list is an empty text; Details and the cause always stay set.
C4_UnsetOnlyByEmptyAttribute ==
    call.fn \in {"Template.T", "Template.E"} =>
        \A f \in Fields :
            IsSet(call.base, f) /\ ~IsSet(call.ret, f) =>
                /\ LastIndex(call.args, {TypeOfField(f)}) # 0
                /\ call.args[LastIndex(call.args, {TypeOfField(f)})].v = <<>>

\* A derivation from a template with Module, Details and a cause set, given a new
\* value: all three are still set.
C4_Witness ==
    /\ call.fn \in {"Template.T", "Template.E"}
    /\ call.args # <<>>
    /\ IsSet(call.base, "Module") /\ IsSet(call.ret, "Module")
    /\ IsSet(call.base, "Details") /\ IsSet(call.ret, "Details")
    /\ call.ret # call.base

\* C5: a derivation leaves the template as it was; of two successive derivations
\* from the same template the second starts from the very record the first started
\* from, and its result is that record with its own attributes only.
C5_NonDestructive ==
    [][IsDerivation(call') /\ call' # call =>
          /\ tpl' = tpl
          /\ call'.base = tpl
          /\ IsDerivation(call) =>
              /\ call'.base = call.base
              /\ ToError(call'.ret) = e(ToError(call.base), call'.args)]_vars

\* A template with a field set has been derived from twice, with different lists,
\* the second adding another field, and still is what it was.
C5_Witness ==
    /\ IsDerivation(call)
    /\ sibling
    /\ IsSet(call.base, "Function")
    /\ ~IsSet(call.base, "Object")
    /\ IsSet(call.ret, "Object")
    /\ tpl = call.base
    /\ ~IsSet(tpl, "Object")

-----------------------------------------------------------------------------
(* Unwrap, checked under SpecUnwrap *)

\* C6: in a chain where each record was made by E with the record before it as its
\* cause, Unwrap of record i is record i-1, Unwrap of the innermost (made without a
\* cause) is nil, and k successive Unwrap calls from the outermost give the record k
\* places further in.
C6_UnwrapChain ==
    /\ \A i \in 2..Len(errs) : Unwrap(errs[i]) = errs[i - 1]
    /\ errs # <<>> => Unwrap(errs[1]) = NilValue
    /\ errs # <<>> /\ hops >= 1 =>
        /\ hops <= Len(errs)
        /\ u = IF hops = Len(errs) THEN NilValue ELSE errs[Len(errs) - hops]

\* A chain of at least three different records, unwrapped N-1 times down to the
\* innermost.
C6_Witness ==
    /\ Len(errs) >= 3
    /\ hops = Len(errs) - 1
    /\ u = errs[1]
    /\ errs[1] # errs[2]
    /\ errs[2] # errs[3]

-----------------------------------------------------------------------------
(* Rendering, checked under SpecChain *)

OnlyDetails(x) ==
    /\ x.t = "Error"
    /\ \A f \in Fields \ {"Details"} : ~IsSet(x, f)

\* C7: Error() of a record whose only set field is Details returns the Details
\* text; of a record with nothing set, the empty text.
C7_DetailsOnly == pc = "done" /\ OnlyDetails(LastError) => out = LastError.Details

RECURSIVE Count(_, _)
Count(q, ch) ==
    IF q = <<>> THEN 0 ELSE (IF Head(q) = ch THEN 1 ELSE 0) + Count(Tail(q), ch)

\* How often ch occurs in the texts of a record's own fields.
CountInFields(x, ch) ==
    Count(x.Module \o x.Function \o x.Object \o x.Operation \o x.Kind \o x.Code
              \o x.Details, ch)

Markers(x, fs) == Cardinality({f \in fs : IsSet(x, f)})

\* C8: in the block of every record of the chain an unset field contributes no
\* character: the block holds no more "/", "[", "(" and ":" than the texts of the
\* record and the markers of its set fields account for.
C8_NoEmptyMarkers ==
    node.t = "Error" =>
        LET b == TrimBlock(s) IN
        /\ Count(b, "/") <= CountInFields(node, "/") + Markers(node, {"Function"})
        /\ Count(b, "[") <= CountInFields(node, "[") + Markers(node, {"Object"})
        /\ Count(b, "(") <= CountInFields(node, "(") + Markers(node, {"Code"})
        /\ Count(b, ":") <=
               CountInFields(node, ":") + Markers(node, {"Operation", "Kind", "Code"})

\* The text of a record with the given Kind segment between its Operation and Code
\* segments.
WithKindSegment(x, seg) ==
    HeaderSegment(x) \o OperationSegment(x) \o seg \o CodeSegment(x) \o DetailsSegment(x)

\* C9 as claimed: the record's Kind is written iff the outermost record's Kind is
\* not empty, followed by ':' iff the record's own Code is empty, then by a space.
C9_KindSegmentOwnCode ==
    node.t = "Error" =>
        s = WithKindSegment(node,
                IF LastError.Kind # <<>>
                THEN node.Kind \o (IF node.Code = <<>> THEN <<":">> ELSE <<>>) \o <<" ">>
                ELSE <<>>)

\* C9 as amended: the record's Kind is written iff the outermost record's Kind is
\* not empty, followed by ':' iff the outermost record's Code is empty, then by a
\* space.
C9_KindSegmentOutermostCode ==
    node.t = "Error" =>
        s = WithKindSegment(node,
                IF LastError.Kind # <<>>
                THEN node.Kind \o (IF LastError.Code = <<>> THEN <<":">> ELSE <<>>)
                         \o <<" ">>
                ELSE <<>>)

\* The block of an inner record with Kind and Code, under an outermost record with a
\* Kind and no Code.
C9_Witness ==
    /\ node.t = "Error"
    /\ node # LastError
    /\ LastError.Kind # <<>>
    /\ LastError.Code = <<>>
    /\ node.Kind # <<>>
    /\ node.Code # <<>>

\* The values the loop variable e is to hold: the records of the chain, up to and
\* with the first that is not an Error.
RECURSIVE ChainOf(_)
ChainOf(x) ==
    IF x.t = "nil"
    THEN <<>>
    ELSE IF x.t = "Error" THEN <<x>> \o ChainOf(x.Err) ELSE <<x>>

====
